---- MODULE Spec2Model ----
(***************************************************************************)
(* pycassa.columnfamilymap: ColumnFamilyMap, the object mapper that sits   *)
(* between a class's declared Column attributes and a ColumnFamily.        *)
(*                                                                         *)
(* Python values are modelled as follows.  A dict is a function whose      *)
(* DOMAIN is its key set.  Row keys and native/packed column values are    *)
(* integers, column / attribute / super-column names are strings.  An      *)
(* instance is its __dict__.  Keyword arguments (kwargs, and parameters    *)
(* defaulting to None) are a dict holding the keywords that were passed.   *)
(* A call's outcome is a record                                            *)
(* [err |-> "" or the exception's name, val |-> the returned value].       *)
(* The timestamp the store returns from insert and remove, which the       *)
(* mapper hands back untouched, is left out, and so is get_count, a plain  *)
(* pass-through.                                                           *)
(***************************************************************************)
EXTENDS Integers, Sequences, FiniteSets, TLC

VARIABLES columns, super, store, call, gen

vars == <<columns, super, store, call, gen>>

(***************************************************************************)
(* Bounds of the model: the column values the store may hold at once, the  *)
(* largest row_count asked of get_range, and the names and values used.    *)
(***************************************************************************)
MaxCells == 2
MaxRowCount == 2

Keys == {1, 2}
Natives == {0, 1}
SuperNames == {"profile", "work"}
AttrNames == {"age", "name", "key"}
\* The attribute sets of the classes mapped.
Declared == {{}, {"age", "name"}, {"age", "key"}}
\* A column some other client wrote to the store and no schema declares.
ExtraCol == "extra"
ExtraRaws == {99}

Empty == <<>>

Ok(v) == [err |-> "", val |-> v]

Raise(e) == [err |-> e, val |-> Empty]

(***************************************************************************)
(* pycassa.types.Column: the descriptor of one declared attribute.  Each   *)
(* descriptor has a default and a codec; the codec is injective and is not *)
(* the identity (packed values live in a range disjoint from the natives), *)
(* and differs from one column type to the next.                           *)
(***************************************************************************)
Descr ==
    [age  |-> [default |-> 0, shift |-> 10],
     name |-> [default |-> 1, shift |-> 20],
     key  |-> [default |-> 1, shift |-> 30]]

pack(type, value) == value + type.shift

unpack(type, raw) == raw - type.shift

\* ColumnFamilyMap.__init__: self.columns holds the Column attributes of cls.
Schemas == {[a \in A |-> Descr[a]] : A \in Declared}

(***************************************************************************)
(* combine_columns(column_dict, columns): seed every declared attribute    *)
(* with its default, then overwrite with the unpacked value each fetched   *)
(* column that the schema knows.                                           *)
(***************************************************************************)
\* combine_columns without the schema lookup: every fetched column is kept.
combine_columns_keep_unknown(column_dict, cols) ==
    [column \in (DOMAIN column_dict) \cup (DOMAIN cols) |->
        IF column \notin DOMAIN cols THEN column_dict[column].default
        ELSE IF column \in DOMAIN column_dict
             THEN unpack(column_dict[column], cols[column])
             ELSE cols[column]]

\* combine_columns storing the fetched value as it came, not unpacked.
combine_columns_no_unpack(column_dict, cols) ==
    [column \in DOMAIN column_dict |->
        IF column \in DOMAIN cols THEN cols[column] ELSE column_dict[column].default]

combine_columns(column_dict, cols) ==
    LET seeded == [column \in DOMAIN column_dict |-> column_dict[column].default]
        known == {column \in DOMAIN cols : column \in DOMAIN column_dict}
    IN  [column \in (DOMAIN seeded) \cup known |->
            IF column \in known
            THEN unpack(column_dict[column], cols[column])
            ELSE seeded[column]]

(***************************************************************************)
(* create_instance(cls, kwargs), as the mapper calls it: with explicit     *)
(* keyword arguments (key, super_column) plus the dict combined.  Python rejects   *)
(* the call when a name of combined repeats an explicit keyword or the     *)
(* positional parameter cls; otherwise the instance's __dict__ is the      *)
(* union of both.                                                          *)
(***************************************************************************)
create_instance(explicit, combined) ==
    IF (DOMAIN combined) \cap ((DOMAIN explicit) \cup {"cls"}) # {}
    THEN Raise("TypeError")
    ELSE Ok(explicit @@ combined)

(***************************************************************************)
(* The ColumnFamily behind the mapper (pycassa.columnfamily).  A row is a  *)
(* dict column -> packed value; in a super column family it is a dict      *)
(* super column -> (column -> packed value).  A row or super column with   *)
(* no column does not exist.                                               *)
(***************************************************************************)
Cells(s) ==
    IF super
    THEN Cardinality(UNION {UNION {{<<k, sc, c>> : c \in DOMAIN s[k][sc]} :
                                   sc \in DOMAIN s[k]} : k \in Keys})
    ELSE Cardinality(UNION {{<<k, c>> : c \in DOMAIN s[k]} : k \in Keys})

Slice(row, kwargs) ==
    IF "columns" \in DOMAIN kwargs
    THEN [c \in (DOMAIN row) \cap kwargs.columns |-> row[c]]
    ELSE row

cf_get(key, kwargs) ==
    IF "super_column" \in DOMAIN kwargs
    THEN IF kwargs.super_column \in DOMAIN store[key]
         THEN Slice(store[key][kwargs.super_column], kwargs)
         ELSE Empty
    ELSE Slice(store[key], kwargs)

cf_multiget(keys, kwargs) ==
    [k \in {x \in keys : DOMAIN cf_get(x, kwargs) # {}} |-> cf_get(k, kwargs)]

RECURSIVE RangeRows(_, _, _, _)
RangeRows(k, finish, n, kwargs) ==
    IF k > finish \/ n = 0 THEN <<>>
    ELSE IF DOMAIN cf_get(k, kwargs) = {}
         THEN RangeRows(k + 1, finish, n, kwargs)
         ELSE <<[key |-> k, cols |-> cf_get(k, kwargs)]>>
              \o RangeRows(k + 1, finish, n - 1, kwargs)

cf_get_range(args, kwargs) ==
    RangeRows(args.start, args.finish, args.row_count, kwargs)

\* dict.update of row with d; in a super family, per super column.
Update(row, d) == d @@ row

cf_insert(key, d) ==
    IF super
    THEN LET old == store[key]
             new == [sc \in (DOMAIN old) \cup {x \in DOMAIN d : DOMAIN d[x] # {}} |->
                        IF sc \in DOMAIN d
                        THEN Update(IF sc \in DOMAIN old THEN old[sc] ELSE Empty, d[sc])
                        ELSE old[sc]]
         IN  [store EXCEPT ![key] = new]
    ELSE [store EXCEPT ![key] = Update(store[key], d)]

\* remove(key, column=None): the whole row, or the one (super) column.
cf_remove(key, args) ==
    IF "column" \in DOMAIN args
    THEN [store EXCEPT ![key] = [c \in (DOMAIN store[key]) \ {args.column} |-> store[key][c]]]
    ELSE [store EXCEPT ![key] = Empty]

NoReq == [op |-> "none"]

(***************************************************************************)
(* ColumnFamilyMap.get(key, **kwargs)                                      *)
(***************************************************************************)
get_kwargs(kw) ==
    IF "columns" \notin DOMAIN kw /\ ~super
    THEN [columns |-> DOMAIN columns] @@ kw
    ELSE kw

get_return(key, kwargs, cols) ==
    IF super
    THEN IF "super_column" \notin DOMAIN kwargs
         THEN LET vals == [super_column \in DOMAIN cols |->
                             create_instance([key |-> key, super_column |-> super_column],
                                             combine_columns(columns, cols[super_column]))]
              IN  IF \E sc \in DOMAIN vals : vals[sc].err # ""
                  THEN Raise("TypeError")
                  ELSE Ok([sc \in DOMAIN vals |-> vals[sc].val])
         ELSE create_instance([key |-> key, super_column |-> kwargs.super_column],
                              combine_columns(columns, cols))
    ELSE create_instance([key |-> key], combine_columns(columns, cols))

get(key, kw) ==
    LET kwargs == get_kwargs(kw)
    IN  [op |-> "get", args |-> [key |-> key, kw |-> kw],
         req |-> [op |-> "get", key |-> key, kw |-> kwargs],
         res |-> get_return(key, kwargs, cf_get(key, kwargs))]

(***************************************************************************)
(* ColumnFamilyMap.multiget(keys, **kwargs)                                *)
(***************************************************************************)
multiget_kwargs(kw) ==
    IF "columns" \notin DOMAIN kw /\ ~super
    THEN [columns |-> DOMAIN columns] @@ kw
    ELSE kw

multiget_entry(key, kwargs, cols) ==
    IF super
    THEN IF "super_column" \notin DOMAIN kwargs
         THEN LET vals == [super_column \in DOMAIN cols |->
                             create_instance([key |-> key, super_column |-> super_column],
                                             combine_columns(columns, cols[super_column]))]
              IN  IF \E sc \in DOMAIN vals : vals[sc].err # ""
                  THEN Raise("TypeError")
                  ELSE Ok([sc \in DOMAIN vals |-> vals[sc].val])
         ELSE create_instance([key |-> key, super_column |-> kwargs.super_column],
                              combine_columns(columns, cols))
    ELSE create_instance([key |-> key], combine_columns(columns, cols))

multiget_return(kwargs, kcmap) ==
    LET ret == [key \in DOMAIN kcmap |-> multiget_entry(key, kwargs, kcmap[key])]
    IN  IF \E key \in DOMAIN ret : ret[key].err # ""
        THEN Raise("TypeError")
        ELSE Ok([key \in DOMAIN ret |-> ret[key].val])

multiget(keys, kw) ==
    LET kwargs == multiget_kwargs(kw)
    IN  [op |-> "multiget", args |-> [keys |-> keys, kw |-> kw],
         req |-> [op |-> "multiget", keys |-> keys, kw |-> kwargs],
         res |-> multiget_return(kwargs, cf_multiget(keys, kwargs))]

(***************************************************************************)
(* ColumnFamilyMap.get_range(start, finish, row_count, **kwargs): a        *)
(* generator.  Calling it runs no code; each next() runs the body up to    *)
(* the next yield.                                                         *)
(***************************************************************************)
\* get_range forwarding the caller's keywords as they are.
get_range_kwargs_as_given(kw) == kw

get_range_kwargs(kw) ==
    IF "columns" \notin DOMAIN kw /\ ~super
    THEN [columns |-> DOMAIN columns] @@ kw
    ELSE kw

get_range_item(key, kwargs, cols) ==
    IF super
    THEN IF "super_column" \notin DOMAIN kwargs
         THEN LET vals == [super_column \in DOMAIN cols |->
                             create_instance([key |-> key, super_column |-> super_column],
                                             combine_columns(columns, cols[super_column]))]
              IN  IF \E sc \in DOMAIN vals : vals[sc].err # ""
                  THEN Raise("TypeError")
                  ELSE Ok([sc \in DOMAIN vals |-> vals[sc].val])
         ELSE create_instance([key |-> key, super_column |-> kwargs.super_column],
                              combine_columns(columns, cols))
    ELSE create_instance([key |-> key], combine_columns(columns, cols))

NoGen ==
    [state |-> "none", args |-> Empty, kw |-> Empty, req |-> NoReq,
     rows |-> <<>>, pulled |-> 0, yielded |-> <<>>]

\* The generator object get_range returns: nothing has run yet.
get_range(args, kw) ==
    [state |-> "created", args |-> args, kw |-> kw, req |-> NoReq,
     rows |-> <<>>, pulled |-> 0, yielded |-> <<>>]

\* The first next(): narrow the request and open the store's range scan.
get_range_start(g) ==
    LET kwargs == get_range_kwargs(g.kw)
    IN  [g EXCEPT !.state = "suspended",
                  !.req = [op |-> "get_range", args |-> g.args, kw |-> kwargs],
                  !.rows = cf_get_range(g.args, kwargs)]

\* Run to the next yield: pull one (key, columns) pair from the store's scan,
\* or finish when the scan has no more.
get_range_next(g) ==
    IF g.pulled = Len(g.rows)
    THEN [g EXCEPT !.state = "done"]
    ELSE LET row == g.rows[g.pulled + 1]
             item == get_range_item(row.key, g.req.kw, row.cols)
         IN  IF item.err # ""
             THEN [g EXCEPT !.state = "raised", !.pulled = g.pulled + 1]
             ELSE [g EXCEPT !.state = "suspended", !.pulled = g.pulled + 1,
                            !.yielded = Append(g.yielded, item.val)]

(***************************************************************************)
(* ColumnFamilyMap.insert(instance, columns=None)                          *)
(***************************************************************************)
\* insert ignoring its columns argument.
insert_columns_all(opt) == DOMAIN columns

insert_columns(opt) ==
    IF "columns" \notin DOMAIN opt THEN DOMAIN columns ELSE opt.columns

insert_dict(instance, opt) ==
    LET d == [column \in insert_columns(opt) |->
                 pack(columns[column], instance[column])]
    IN  IF super THEN [sc \in {instance.super_column} |-> d] ELSE d

insert(instance, opt) ==
    IF \E column \in insert_columns(opt) :
           column \notin DOMAIN columns \/ column \notin DOMAIN instance
    THEN [op |-> "insert", args |-> [instance |-> instance, opt |-> opt],
          req |-> NoReq, res |-> Raise("KeyError")]
    ELSE [op |-> "insert", args |-> [instance |-> instance, opt |-> opt],
          req |-> [op |-> "insert", key |-> instance.key,
                   dict |-> insert_dict(instance, opt)],
          res |-> Ok(Empty)]

(***************************************************************************)
(* ColumnFamilyMap.remove(instance, column=None)                           *)
(***************************************************************************)
\* remove passing its column argument on for a super family too.
remove_args_column(instance, opt) == opt

remove_args(instance, opt) ==
    IF super THEN [column |-> instance.super_column] ELSE opt

remove(instance, opt) ==
    [op |-> "remove", args |-> [instance |-> instance, opt |-> opt],
     req |-> [op |-> "remove", key |-> instance.key, args |-> remove_args(instance, opt)],
     res |-> Ok(Empty)]

(***************************************************************************)
(* What callers pass.                                                      *)
(***************************************************************************)
CallerColumns == {{"age", ExtraCol, "profile"}}

ReadKwargs ==
    {c @@ s : c \in {Empty} \cup {[columns |-> C] : C \in CallerColumns},
              s \in {Empty} \cup (IF super
                                  THEN {[super_column |-> sc] : sc \in SuperNames}
                                  ELSE {})}

RangeArgs ==
    {r \in [start : Keys, finish : Keys, row_count : 1..MaxRowCount] :
        r.start <= r.finish}

Identities ==
    IF super
    THEN {[key |-> k, super_column |-> sc] : k \in Keys, sc \in SuperNames}
    ELSE {[key |-> k] : k \in Keys}

\* Instances of cls carrying every declared attribute.
Instances == {id @@ attrs : id \in Identities, attrs \in [DOMAIN columns -> Natives]}

InsertOpts == {Empty} \cup {[columns |-> {c}] : c \in {"age", "name"}}

\* remove reads only the identity of the instance.
RemoveInstances ==
    {id @@ [a \in DOMAIN columns |-> columns[a].default] : id \in Identities}

RemoveOpts == {Empty} \cup {[column |-> c] : c \in {"age", "work"}}

(***************************************************************************)
(* The state machine.  call is the last operation on the family: what was  *)
(* asked, the request the mapper sent the store, and what it returned.     *)
(* gen is the caller's range iterator, if any.  The caller issues one      *)
(* operation at a time and then drops its outcome (Forget); only a get may *)
(* directly follow an insert, to read back what was written.               *)
(***************************************************************************)
NoCall == [op |-> "none", args |-> Empty, req |-> NoReq, res |-> Ok(Empty)]

Init ==
    /\ columns \in Schemas
    /\ super \in BOOLEAN
    /\ store = [k \in Keys |-> Empty]
    /\ call = NoCall
    /\ gen = NoGen

Idle == call.op = "none"

Get ==
    \E key \in Keys, kw \in ReadKwargs :
        /\ Idle \/ call.op = "insert"
        /\ call' = get(key, kw)
        /\ gen' = NoGen
        /\ UNCHANGED <<columns, super, store>>

Multiget ==
    \E keys \in SUBSET Keys, kw \in ReadKwargs :
        /\ Idle
        /\ call' = multiget(keys, kw)
        /\ gen' = NoGen
        /\ UNCHANGED <<columns, super, store>>

GetRange ==
    \E args \in RangeArgs, kw \in ReadKwargs :
        /\ Idle
        /\ gen' = get_range(args, kw)
        /\ call' = [op |-> "get_range", args |-> [args |-> args, kw |-> kw],
                    req |-> NoReq, res |-> Ok(Empty)]
        /\ UNCHANGED <<columns, super, store>>

\* next() on the iterator.
GenNext ==
    /\ gen.state \in {"created", "suspended"}
    /\ gen' = get_range_next(IF gen.state = "created" THEN get_range_start(gen) ELSE gen)
    /\ UNCHANGED <<columns, super, store, call>>

\* The caller drops the iterator before it is exhausted.
GenAbandon ==
    /\ gen.state \in {"created", "suspended"}
    /\ gen' = [gen EXCEPT !.state = "closed"]
    /\ UNCHANGED <<columns, super, store, call>>

Insert ==
    \E instance \in Instances, opt \in InsertOpts :
        LET c == insert(instance, opt)
        IN  /\ Idle
            /\ call' = c
            /\ store' = IF c.res.err = "" THEN cf_insert(c.req.key, c.req.dict) ELSE store
            /\ Cells(store') <= MaxCells
            /\ gen' = NoGen
            /\ UNCHANGED <<columns, super>>

Remove ==
    \E instance \in RemoveInstances, opt \in RemoveOpts :
        LET c == remove(instance, opt)
        IN  /\ Idle
            /\ call' = c
            /\ store' = cf_remove(c.req.key, c.req.args)
            /\ gen' = NoGen
            /\ UNCHANGED <<columns, super>>

\* Another client of the same store writes a column no schema declares.
ForeignInsert ==
    \E id \in Identities, raw \in ExtraRaws :
        LET d == [c \in {ExtraCol} |-> raw]
            dict == IF super THEN [sc \in {id.super_column} |-> d] ELSE d
        IN  /\ Idle
            /\ store' = cf_insert(id.key, dict)
            /\ Cells(store') <= MaxCells
            /\ call' = [op |-> "foreign", args |-> Empty,
                        req |-> [op |-> "insert", key |-> id.key, dict |-> dict],
                        res |-> Ok(Empty)]
            /\ gen' = NoGen
            /\ UNCHANGED <<columns, super>>

\* The caller drops the outcome of its last operation.
Forget ==
    /\ ~Idle
    /\ gen.state \notin {"created", "suspended"}
    /\ call' = NoCall
    /\ gen' = NoGen
    /\ UNCHANGED <<columns, super, store>>

Next ==
    \/ Get
    \/ Multiget
    \/ GetRange
    \/ GenNext
    \/ GenAbandon
    \/ Insert
    \/ Remove
    \/ ForeignInsert
    \/ Forget

Spec == Init /\ [][Next]_vars

(***************************************************************************)
(* combine_columns on its own: any schema over the attribute names, any    *)
(* fetched row over the attribute names and the undeclared column.         *)
(***************************************************************************)
AllSchemas == {[a \in A |-> Descr[a]] : A \in SUBSET AttrNames}

RawVals == {pack(Descr[a], v) : a \in AttrNames, v \in Natives} \cup ExtraRaws

RawRows == UNION {[C -> RawVals] : C \in SUBSET (AttrNames \cup {ExtraCol})}

InitMerge ==
    /\ columns \in AllSchemas
    /\ super = FALSE
    /\ store = [k \in Keys |-> Empty]
    /\ call \in {[op |-> "fetched", args |-> [cols |-> R], req |-> NoReq, res |-> Ok(Empty)] :
                    R \in RawRows}
    /\ gen = NoGen

Combine ==
    /\ call.op = "fetched"
    /\ call' = [call EXCEPT !.op = "combine_columns",
                            !.res = Ok(combine_columns(columns, call.args.cols))]
    /\ UNCHANGED <<columns, super, store, gen>>

NextMerge == Combine

SpecMerge == InitMerge /\ [][NextMerge]_vars

(***************************************************************************)
(* C1: whatever the schema and the fetched row (empty, partial, or holding *)
(* undeclared columns), the keys of combine_columns' result are exactly    *)
(* the schema's attribute names.                                           *)
(***************************************************************************)
C1_KeySet ==
    call.op = "combine_columns" => DOMAIN call.res.val = DOMAIN columns

\* A merge of a row that lacks a declared attribute and holds an undeclared column.
C1_Witness ==
    /\ call.op = "combine_columns"
    /\ (DOMAIN call.args.cols) \ (DOMAIN columns) # {}
    /\ (DOMAIN columns) \ (DOMAIN call.args.cols) # {}
    /\ (DOMAIN columns) \cap (DOMAIN call.args.cols) # {}

(***************************************************************************)
(* C2: each declared attribute absent from the fetched row has its         *)
(* default; each one present has the unpacked fetched value.               *)
(***************************************************************************)
C2_DefaultOrUnpacked ==
    call.op = "combine_columns" =>
        \A a \in DOMAIN columns :
            /\ a \in DOMAIN call.res.val
            /\ call.res.val[a] =
                   IF a \in DOMAIN call.args.cols
                   THEN unpack(columns[a], call.args.cols[a])
                   ELSE columns[a].default

\* The spec's example: age fetched (and not the default), name absent.
C2_Witness ==
    /\ call.op = "combine_columns"
    /\ DOMAIN columns = {"age", "name"}
    /\ DOMAIN call.args.cols = {"age"}
    /\ call.res.val["age"] # columns["age"].default
    /\ call.res.val["name"] = columns["name"].default

(***************************************************************************)
(* Helpers of the properties below.                                        *)
(***************************************************************************)
\* The last call was a read of a super family with no super_column asked.
Unscoped(kw) == super /\ "super_column" \notin DOMAIN kw

\* The attribute a of the merge of the schema with the fetched columns cols.
Merged(cols, a) ==
    IF a \in DOMAIN cols THEN unpack(columns[a], cols[a]) ELSE columns[a].default

\* A declared attribute bears a name create_instance is also passed explicitly.
Clash ==
    (DOMAIN columns) \cap (IF super THEN {"key", "super_column", "cls"}
                                    ELSE {"key", "cls"}) # {}

\* The rows that agree with row on every declared column and hold any
\* undeclared columns.
Undeclared == (AttrNames \cup {ExtraCol}) \ (DOMAIN columns)

VariantRaws == ExtraRaws \cup {pack(Descr["age"], 0)}

Variants(row) ==
    LET declared == [c \in (DOMAIN row) \cap (DOMAIN columns) |-> row[c]]
    IN  {declared @@ x : x \in UNION {[C -> VariantRaws] : C \in SUBSET Undeclared}}

RECURSIVE SuperVariants(_)
SuperVariants(srow) ==
    IF DOMAIN srow = {} THEN {Empty}
    ELSE LET sc == CHOOSE x \in DOMAIN srow : TRUE
             rest == [x \in (DOMAIN srow) \ {sc} |-> srow[x]]
         IN  {[x \in {sc} |-> v] @@ r : v \in Variants(srow[sc]), r \in SuperVariants(rest)}

VariantsOf(raw, kw) == IF Unscoped(kw) THEN SuperVariants(raw) ELSE Variants(raw)

\* Every instance of a read's result carries the row key.
Carries(result, key, kw) ==
    IF Unscoped(kw)
    THEN \A sc \in DOMAIN result : result[sc].key = key
    ELSE result.key = key

(***************************************************************************)
(* C3: undeclared columns of a fetched row have no influence and raise no  *)
(* error.  For get, multiget and get_range: replacing the row the store    *)
(* returned by any row that agrees with it on every declared column (and   *)
(* differs arbitrarily on the others) gives the same outcome.              *)
(***************************************************************************)
C3_UndeclaredIgnored ==
    /\ call.op = "get" =>
           \A R2 \in VariantsOf(cf_get(call.args.key, call.req.kw), call.req.kw) :
               get_return(call.args.key, call.req.kw, R2) = call.res
    /\ call.op = "multiget" =>
           LET kcmap == cf_multiget(call.args.keys, call.req.kw)
           IN  \A k \in DOMAIN kcmap :
                   \A R2 \in VariantsOf(kcmap[k], call.req.kw) :
                       multiget_return(call.req.kw, [kcmap EXCEPT ![k] = R2]) = call.res
    /\ gen.state \in {"suspended", "done", "raised"} =>
           \A i \in 1..gen.pulled :
               \A R2 \in VariantsOf(gen.rows[i].cols, gen.req.kw) :
                   LET item == get_range_item(gen.rows[i].key, gen.req.kw, R2)
                   IN  IF i <= Len(gen.yielded)
                       THEN item = Ok(gen.yielded[i])
                       ELSE item.err # ""

\* A get that built an instance from a row holding a declared and an undeclared column.
C3_Witness ==
    /\ call.op = "get"
    /\ call.res.err = ""
    /\ ~Unscoped(call.req.kw)
    /\ LET raw == cf_get(call.args.key, call.req.kw)
       IN  /\ (DOMAIN raw) \ (DOMAIN columns) # {}
           /\ (DOMAIN raw) \cap (DOMAIN columns) # {}

RoundTripStep ==
    /\ call.op = "insert"
    /\ call.res.err = ""
    /\ "columns" \notin DOMAIN call.args.opt
    /\ \A a \in DOMAIN columns : call.args.instance[a] = columns[a].default
    /\ call'.op = "get"
    /\ call'.args.key = call.args.instance.key
    /\ call'.args.kw = IF super
                       THEN [super_column |-> call.args.instance.super_column]
                       ELSE Empty

(***************************************************************************)
(* C4: round trip.  insert(instance) of an instance holding the schema     *)
(* defaults, followed by get(instance.key) (with super_column =            *)
(* instance.super_column on a super family), returns an instance equal to  *)
(* the one inserted.                                                       *)
(***************************************************************************)
C4_RoundTrip ==
    [][RoundTripStep => call'.res = Ok(call.args.instance)]_vars

\* The same, for the classes none of whose attributes is named like an
\* explicit argument of create_instance.
C4_RoundTripNoClash ==
    [][RoundTripStep /\ ~Clash => call'.res = Ok(call.args.instance)]_vars

SuperGetMapping ==
    LET raw == cf_get(call.args.key, call.req.kw)
    IN  /\ call.res.err = ""
        /\ DOMAIN call.res.val = DOMAIN raw
        /\ \A sc \in DOMAIN raw :
               LET instance == call.res.val[sc]
               IN  /\ DOMAIN instance = {"key", "super_column"} \cup DOMAIN columns
                   /\ instance.key = call.args.key
                   /\ instance.super_column = sc
                   /\ \A a \in DOMAIN columns : instance[a] = Merged(raw[sc], a)

(***************************************************************************)
(* C5: on a super family, get(key) with no super_column returns a dict     *)
(* whose keys are the super columns of the fetched super row, each mapped  *)
(* to an instance with that key, that super_column and the merge of the    *)
(* schema with the super column's columns, whatever the attribute names.   *)
(***************************************************************************)
C5_SuperGet ==
    (call.op = "get" /\ Unscoped(call.args.kw)) => SuperGetMapping

C5_SuperGetNoClash ==
    (call.op = "get" /\ Unscoped(call.args.kw) /\ ~Clash) => SuperGetMapping

MultigetAsGet ==
    LET kcmap == cf_multiget(call.args.keys, call.req.kw)
    IN  /\ call.res.err = ""
        /\ DOMAIN call.res.val = DOMAIN kcmap
        /\ \A k \in DOMAIN kcmap : get(k, call.args.kw).res = Ok(call.res.val[k])

(***************************************************************************)
(* C6: multiget returns one entry per key the store returned, and the      *)
(* entry of key k is what get(k), with the same keyword arguments, returns *)
(* on the same store.                                                      *)
(***************************************************************************)
C6_Multiget ==
    call.op = "multiget" => MultigetAsGet

C6_MultigetNoClash ==
    (call.op = "multiget" /\ ~Clash) => MultigetAsGet

RangeSequence ==
    LET scan == cf_get_range(gen.args, gen.req.kw)
    IN  /\ gen.state # "raised"
        /\ gen.rows = scan
        /\ gen.pulled = Len(gen.yielded)
        /\ gen.pulled <= Len(scan)
        /\ gen.pulled <= gen.args.row_count
        /\ gen.state = "done" => gen.pulled = Len(scan)
        /\ \A i \in 1..Len(gen.yielded) :
               /\ gen.args.start <= scan[i].key
               /\ scan[i].key <= gen.args.finish
               /\ Carries(gen.yielded[i], scan[i].key, gen.req.kw)
               /\ \A j \in 1..(i - 1) : scan[j].key < scan[i].key

RangeNotStarted ==
    gen.req = NoReq /\ gen.pulled = 0 /\ gen.yielded = <<>>

(***************************************************************************)
(* C7: the iterator get_range returns.  Before the first next() nothing is *)
(* asked of the store.  From then on it has yielded one result per pair    *)
(* pulled from the store's scan, in the scan's order and with the pair's   *)
(* key, never more than row_count and only keys of [start, finish]; when   *)
(* it is exhausted it has yielded the whole scan; dropped early, it has    *)
(* pulled nothing further; and the store is as it was.                     *)
(***************************************************************************)
C7_GetRange ==
    /\ gen.state = "created" => RangeNotStarted
    /\ (gen.state = "closed" /\ gen.req = NoReq) => RangeNotStarted
    /\ (gen.state # "none" /\ gen.req # NoReq) => RangeSequence

C7_GetRangeNoClash ==
    Clash \/ C7_GetRange

Without(row, c) == [x \in (DOMAIN row) \ {c} |-> row[x]]

RemoveStep == call.op = "none" /\ call'.op = "remove"

RemoveEffect ==
    LET instance == call'.args.instance
        opt == call'.args.opt
        key == instance.key
    IN  /\ call'.req.op = "remove"
        /\ call'.req.key = key
        /\ \A k \in Keys \ {key} : store'[k] = store[k]
        /\ super =>
               /\ call'.req.args = [column |-> instance.super_column]
               /\ store'[key] = Without(store[key], instance.super_column)
        /\ (~super /\ "column" \in DOMAIN opt) =>
               /\ call'.req.args = [column |-> opt.column]
               /\ store'[key] = Without(store[key], opt.column)
        /\ (~super /\ "column" \notin DOMAIN opt) =>
               /\ DOMAIN call'.req.args = {}
               /\ DOMAIN store'[key] = {}

(***************************************************************************)
(* C8: remove(instance, column).  On a super family the store is asked to  *)
(* remove the super column instance.super_column of instance.key, whatever *)
(* column is; otherwise the named column of instance.key, or the whole row *)
(* when no column is given.  The rest of the store stays.                  *)
(***************************************************************************)
C8_Remove == [][RemoveStep => RemoveEffect]_vars

\* A remove on a super family, given as column the name of the row's other
\* super column: that one is still stored, the instance's own is gone.
C8_Witness ==
    /\ super
    /\ call.op = "remove"
    /\ "column" \in DOMAIN call.args.opt
    /\ call.args.opt.column # call.args.instance.super_column
    /\ call.args.opt.column \in DOMAIN store[call.args.instance.key]
    /\ call.args.instance.super_column \notin DOMAIN store[call.args.instance.key]

Cell(s, k, sc, c) ==
    LET row == IF super
               THEN IF sc \in DOMAIN s[k] THEN s[k][sc] ELSE Empty
               ELSE s[k]
    IN  IF c \in DOMAIN row THEN <<row[c]>> ELSE <<>>

InsertStep == call.op = "none" /\ call'.op = "insert" /\ call'.res.err = ""

InsertEffect ==
    LET instance == call'.args.instance
        opt == call'.args.opt
        C == IF "columns" \in DOMAIN opt THEN opt.columns ELSE DOMAIN columns
        row == IF super THEN call'.req.dict[instance.super_column] ELSE call'.req.dict
    IN  /\ call'.req.op = "insert"
        /\ call'.req.key = instance.key
        /\ super => DOMAIN call'.req.dict = {instance.super_column}
        /\ DOMAIN row = C
        /\ \A c \in C : row[c] = pack(columns[c], instance[c])
        /\ \A k \in Keys, sc \in SuperNames, c \in AttrNames \cup {ExtraCol} :
               \/ k = instance.key /\ (super => sc = instance.super_column) /\ c \in C
               \/ Cell(store', k, sc, c) = Cell(store, k, sc, c)

(***************************************************************************)
(* C9: insert(instance, columns=C) sends the store, under instance.key, a  *)
(* row whose columns are exactly C (the declared attributes when no        *)
(* columns are given), each the pack of the instance's value; on a super   *)
(* family the row is the single entry of a dict keyed by                   *)
(* instance.super_column.  What the store holds elsewhere, the declared    *)
(* attributes outside C included, is left as it was.                       *)
(***************************************************************************)
C9_Insert == [][InsertStep => InsertEffect]_vars

\* The spec's example: insert(instance, columns=["age"]) on a row that holds name.
C9_Witness ==
    /\ call.op = "insert"
    /\ call.res.err = ""
    /\ "columns" \in DOMAIN call.args.opt
    /\ call.args.opt.columns = {"age"}
    /\ "name" \in DOMAIN columns
    /\ \E sc \in SuperNames :
           /\ super => sc = call.args.instance.super_column
           /\ Cell(store, call.args.instance.key, sc, "name") # <<>>
           /\ Cell(store, call.args.instance.key, sc, "age")
                  = <<pack(columns["age"], call.args.instance["age"])>>

Narrowed(kw, sent) ==
    /\ ("columns" \notin DOMAIN kw /\ ~super) =>
           /\ DOMAIN sent = (DOMAIN kw) \cup {"columns"}
           /\ sent.columns = DOMAIN columns
           /\ \A x \in DOMAIN kw : sent[x] = kw[x]
    /\ ("columns" \in DOMAIN kw \/ super) => sent = kw

(***************************************************************************)
(* C10: the request a read sends the store.  With no columns given and a   *)
(* family that is not super, the request names exactly the declared        *)
(* attributes; columns the caller gives are forwarded as given; on a super *)
(* family nothing is added.  The same for get, multiget and get_range.     *)
(***************************************************************************)
C10_Narrowing ==
    /\ call.op \in {"get", "multiget"} => Narrowed(call.args.kw, call.req.kw)
    /\ (gen.state # "none" /\ gen.req # NoReq) =>
           /\ gen.req.op = "get_range"
           /\ gen.req.args = gen.args
           /\ Narrowed(gen.kw, gen.req.kw)

\* A range scan, begun with no columns given, of a family that is not super.
C10_Witness ==
    /\ ~super
    /\ gen.state = "suspended"
    /\ "columns" \notin DOMAIN gen.kw
    /\ gen.req.kw.columns = {"age", "name"}
    /\ Len(gen.yielded) > 0

====
